---- MODULE Spec2Model ----
(***************************************************************************)
(* A model of the MessageEmbed class of src/assets/Embeds.js.              *)
(*                                                                         *)
(* JavaScript values are records [t |-> tag, v |-> payload].  A string is  *)
(* the sequence of its characters.  The box-drawing characters of the      *)
(* source are written in ASCII: WALL stands for U+2502, DASH for U+2500    *)
(* and BULLET for U+2022; TICK stands for the grave accent U+0060.         *)
(***************************************************************************)
EXTENDS Integers, Sequences, FiniteSets, TLC

VARIABLES embed, other, last, input

vars == <<embed, other, last, input>>

----------------------------------------------------------------------------
(* JavaScript values *)

Undefined == [t |-> "undefined", v |-> 0]
Null == [t |-> "null", v |-> 0]
NaN == [t |-> "NaN", v |-> 0]
Num(n) == [t |-> "number", v |-> n]
Str(s) == [t |-> "string", v |-> s]
Bool(b) == [t |-> "boolean", v |-> b]
Arr(a) == [t |-> "array", v |-> a]
Obj(r) == [t |-> "object", v |-> r]

(* the typeof operator, as the string it evaluates to *)
TypeOf(x) ==
  CASE x.t = "undefined" -> Str(<<"u","n","d","e","f","i","n","e","d">>)
    [] x.t \in {"number", "NaN"} -> Str(<<"n","u","m","b","e","r">>)
    [] x.t = "string" -> Str(<<"s","t","r","i","n","g">>)
    [] x.t = "boolean" -> Str(<<"b","o","o","l","e","a","n">>)
    [] OTHER -> Str(<<"o","b","j","e","c","t">>)

NumberName == Str(<<"n","u","m","b","e","r">>)
StringName == Str(<<"s","t","r","i","n","g">>)

(* ToBoolean *)
Truthy(x) ==
  CASE x.t \in {"undefined", "null", "NaN"} -> FALSE
    [] x.t = "number" -> x.v # 0
    [] x.t = "string" -> Len(x.v) > 0
    [] x.t = "boolean" -> x.v
    [] OTHER -> TRUE

(* the ! operator *)
Not(x) == Bool(~Truthy(x))

(* the === operator: no conversion, NaN differs from itself, objects are *)
(* compared by identity                                                   *)
StrictEq(x, y) ==
  IF x.t # y.t THEN FALSE
  ELSE CASE x.t = "NaN" -> FALSE
         [] x.t = "object" -> x.v.ref = y.v.ref
         [] OTHER -> x.v = y.v

(* the ?? operator *)
Nullish(x, dflt) == IF x.t \in {"undefined", "null"} THEN dflt ELSE x

(* String.prototype.slice for indices 0 <= a, 0 <= b (0-based, b exclusive) *)
Slice(s, a, b) ==
  LET hi == IF b > Len(s) THEN Len(s) ELSE b
  IN IF a >= hi THEN <<>> ELSE SubSeq(s, a + 1, hi)

(* Array.prototype.flat(depth) on a sequence of values *)
RECURSIVE Flat(_, _)
Flat(a, depth) ==
  IF a = <<>> THEN <<>>
  ELSE LET h == Head(a)
       IN (IF h.t = "array" /\ depth > 0 THEN Flat(h.v, depth - 1) ELSE <<h>>)
            \o Flat(Tail(a), depth)

(* Number to decimal string, for non-negative integers *)
RECURSIVE Digits(_)
Digits(n) ==
  LET d == <<"0","1","2","3","4","5","6","7","8","9">>[(n % 10) + 1]
  IN IF n < 10 THEN <<d>> ELSE Digits(n \div 10) \o <<d>>

WALL == "|"
DASH == "-"
BULLET == "o"
SPACE == " "
NL == "\n"
TICK == "^"

----------------------------------------------------------------------------
(* Construction *)

(* property read on the options object: undefined when the key is absent *)
DataGet(data, k) == IF k \in data.present THEN data[k] ELSE Undefined

(* new Date(x).getTime() for the values the constructor is given here *)
DateGetTime(x) ==
  CASE x.t = "number" -> x
    [] x.t = "null" -> Num(0)
    [] OTHER -> NaN

(* Util.verifyString(data, error, errorMessage, allowEmpty = false) *)
verifyString(data) ==
  IF data.t # "string" THEN [ok |-> FALSE, err |-> "RangeError", v |-> data]
  ELSE IF Len(data.v) = 0 THEN [ok |-> FALSE, err |-> "RangeError", v |-> data]
  ELSE [ok |-> TRUE, err |-> "none", v |-> data]

(* property read field.name / field.value *)
FieldGet(field, k) ==
  IF field.t = "object" /\ k \in DOMAIN field.v THEN field.v[k] ELSE Undefined

normalizeField(field) ==
  IF field.t \in {"undefined", "null"}
  THEN [ok |-> FALSE, err |-> "TypeError", v |-> <<>>]
  ELSE LET n == verifyString(FieldGet(field, "name"))
           val == verifyString(FieldGet(field, "value"))
       IN IF ~n.ok THEN [ok |-> FALSE, err |-> n.err, v |-> <<>>]
          ELSE IF ~val.ok THEN [ok |-> FALSE, err |-> val.err, v |-> <<>>]
          ELSE [ok |-> TRUE, err |-> "none", v |-> <<[name |-> n.v, value |-> val.v]>>]

(* fields.map(normalizeField): the first field that throws ends the map *)
RECURSIVE MapNormalize(_)
MapNormalize(a) ==
  IF a = <<>> THEN [ok |-> TRUE, err |-> "none", v |-> <<>>]
  ELSE LET h == normalizeField(Head(a))
       IN IF ~h.ok THEN h
          ELSE LET r == MapNormalize(Tail(a))
               IN IF ~r.ok THEN r ELSE [ok |-> TRUE, err |-> "none", v |-> h.v \o r.v]

(* static normalizeFields(...fields): fields is the array of its arguments *)
normalizeFields(fields) == MapNormalize(Flat(fields, 2))

(* Util.cloneObject: a shallow copy of a field object *)
cloneObject(o) == o.v

Setup(data, skipValidation) ==
  [px |-> Nullish(DataGet(data, "px"), Null),
   title |-> Nullish(DataGet(data, "title"), Null),
   description |-> Nullish(DataGet(data, "description"), Null),
   timestamp |-> IF "timestamp" \in data.present THEN DateGetTime(data.timestamp) ELSE Null,
   fields |-> IF Truthy(DataGet(data, "fields"))
              THEN IF skipValidation
                   THEN [i \in 1..Len(data.fields.v) |-> cloneObject(data.fields.v[i])]
                   ELSE normalizeFields(<<data.fields>>).v
              ELSE <<>>,
   footer |-> Nullish(DataGet(data, "footer"), Null)]

(* the constructor throws when a field of data.fields does not validate *)
SetupThrows(data, skipValidation) ==
  /\ Truthy(DataGet(data, "fields"))
  /\ ~skipValidation
  /\ ~normalizeFields(<<data.fields>>).ok

----------------------------------------------------------------------------
(* equals *)

_fieldEquals(field, o) == StrictEq(field.name, o.name) /\ StrictEq(field.value, o.value)

equals(this, e) ==
  /\ StrictEq(this.px, e.px)
  /\ StrictEq(this.title, e.title)
  /\ StrictEq(this.description, e.description)
  /\ StrictEq(this.timestamp, e.timestamp)
  /\ Len(this.fields) = Len(e.fields)
  /\ \A i \in 1..Len(this.fields) : _fieldEquals(this.fields[i], e.fields[i])
  /\ StrictEq(this.footer, e.footer)

----------------------------------------------------------------------------
(* sizeEmbed.  A call yields [this |-> the embed afterwards, ret |-> what  *)
(* the call returned ("this", "undefined") or the error it threw].  ref is *)
(* the identity of the object the call allocates.                          *)

RECURSIVE Line(_)
Line(n) == IF n <= 0 THEN <<>> ELSE Line(n - 1) \o <<DASH>>

Abs(n) == IF n < 0 THEN -n ELSE n

(* sizeEmbed without the Math.abs: the rule is px - 4 dashes *)
sizeEmbed_NoAbs(this, px, ref) ==
  IF StrictEq(Not(TypeOf(px)), NumberName) /\ StrictEq(px, Undefined)
  THEN [this |-> [this EXCEPT !.px = Obj([ref |-> ref, char |-> Null, line |-> Null])],
        ret |-> "this"]
  ELSE IF StrictEq(TypeOf(px), NumberName)
  THEN IF px.t = "number" /\ px.v > 2 /\ px.v < 47
       THEN [this |-> [this EXCEPT !.px =
                         Obj([ref |-> ref, char |-> px, line |-> Str(Line(px.v - 4))])],
             ret |-> "this"]
       ELSE [this |-> this, ret |-> "RangeError"]
  ELSE [this |-> this, ret |-> "undefined"]

sizeEmbed(this, px, ref) ==
  IF StrictEq(Not(TypeOf(px)), NumberName) /\ StrictEq(px, Undefined)
  THEN [this |-> [this EXCEPT !.px = Obj([ref |-> ref, char |-> Null, line |-> Null])],
        ret |-> "this"]
  ELSE IF StrictEq(TypeOf(px), NumberName)
  THEN IF px.t = "number" /\ px.v > 2 /\ px.v < 47
       THEN [this |-> [this EXCEPT !.px =
                         Obj([ref |-> ref, char |-> px, line |-> Str(Line(Abs(px.v - 4)))])],
             ret |-> "this"]
       ELSE [this |-> this, ret |-> "RangeError"]
  ELSE [this |-> this, ret |-> "undefined"]

----------------------------------------------------------------------------
(* addField, addFields *)

(* the fields that validate before the first one that does not *)
RECURSIVE ValidPrefix(_)
ValidPrefix(a) ==
  IF a = <<>> THEN <<>>
  ELSE LET h == normalizeField(Head(a))
       IN IF h.ok THEN h.v \o ValidPrefix(Tail(a)) ELSE <<>>

(* addFields pushing each field as soon as it is validated *)
addFields_PushEach(this, fields) ==
  LET n == normalizeFields(<<Arr(fields)>>)
  IN IF n.ok THEN [this |-> [this EXCEPT !.fields = this.fields \o n.v], ret |-> "this"]
     ELSE [this |-> [this EXCEPT !.fields = this.fields \o ValidPrefix(Flat(<<Arr(fields)>>, 2))],
           ret |-> n.err]

(* addFields with unshift in place of push *)
addFields_Unshift(this, fields) ==
  LET n == normalizeFields(<<Arr(fields)>>)
  IN IF n.ok THEN [this |-> [this EXCEPT !.fields = n.v \o this.fields], ret |-> "this"]
     ELSE [this |-> this, ret |-> n.err]

(* addFields(...fields): fields is the array of the call's arguments *)
addFields(this, fields) ==
  LET n == normalizeFields(<<Arr(fields)>>)
  IN IF n.ok THEN [this |-> [this EXCEPT !.fields = this.fields \o n.v], ret |-> "this"]
     ELSE [this |-> this, ret |-> n.err]

addField(this, name, value) == addFields(this, <<Obj([name |-> name, value |-> value])>>)

----------------------------------------------------------------------------
(* The chunking code of setTitle and setDescription *)

(* the width in effect: 28 unless this.px is an object with a char *)
MaxOf(this) ==
  IF ~StrictEq(this.px, Null) /\ this.px.t = "object"
  THEN Nullish(this.px.v.char, Num(28)).v
  ELSE 28

(* first loop: the cut positions.                                          *)
(* st = [i, arr_parts, parts_count_loop, parts, help_loop]                 *)
(* one pass of the loop body, and the i++ after it *)
PartsStep(lenstr, max, st) ==
  LET i == st.i
      s1 == IF i = st.parts
            THEN [st EXCEPT !.arr_parts = Append(@, i),
                            !.parts_count_loop = @ + 1,
                            !.parts = @ + max]
            ELSE st
      s2 == IF i = lenstr
            THEN LET lastElement == s1.arr_parts[Len(s1.arr_parts)]
                     final_count == (i - lastElement) + lastElement
                 IN [s1 EXCEPT !.help_loop = TRUE, !.arr_parts = Append(@, final_count)]
            ELSE s1
  IN [s2 EXCEPT !.i = @ + 1]

RECURSIVE PartsLoop(_, _, _, _)
PartsLoop(o, lenstr, max, st) ==
  IF ~(st.i < o) THEN st
  ELSE PartsLoop(o, lenstr, max, PartsStep(lenstr, max, st))

(* the cut positions when the last one is left as i - lastElement *)
ArrParts_NoAddBack(lenstr, max) ==
  LET st == PartsLoop(lenstr + 1, lenstr, max,
                      [i |-> 0, arr_parts |-> <<>>, parts_count_loop |-> 0,
                       parts |-> max, help_loop |-> FALSE])
      n == Len(st.arr_parts)
  IN [st EXCEPT !.parts_count_loop = IF st.help_loop THEN @ + 1 ELSE @,
                !.arr_parts[n] = @ - st.arr_parts[n - 1]]

ArrParts(lenstr, max) ==
  LET st == PartsLoop(lenstr + 1, lenstr, max,
                      [i |-> 0, arr_parts |-> <<>>, parts_count_loop |-> 0,
                       parts |-> max, help_loop |-> FALSE])
  IN [st EXCEPT !.parts_count_loop = IF st.help_loop THEN @ + 1 ELSE @]

(* arr_parts[k] of the 0-based array; slice() reads a missing start as 0 *)
PartAt(arr_parts, k) == IF k >= 0 /\ k < Len(arr_parts) THEN arr_parts[k + 1] ELSE 0

(* second loop: the slices, the last one cut between the last two positions *)
RECURSIVE SliceLoop(_, _, _, _, _, _)
SliceLoop(i, str, max, p, liceit, arr) ==
  IF ~(i < p.parts_count_loop) THEN arr
  ELSE IF i = p.parts_count_loop - 1
  THEN Append(arr, Slice(str, PartAt(p.arr_parts, i - 1), PartAt(p.arr_parts, i)))
  ELSE SliceLoop(i + 1, str, max, p, liceit + max,
                 Append(arr, Slice(str, liceit, liceit + max)))

Slices(str, max) == SliceLoop(0, str, max, ArrParts(Len(str), max), 0, <<>>)

(* third loop: the lines joined by newlines, none after the last *)
RECURSIVE JoinLines(_)
JoinLines(arr) ==
  IF arr = <<>> THEN <<>>
  ELSE IF Len(arr) = 1 THEN arr[1]
  ELSE arr[1] \o <<NL>> \o JoinLines(Tail(arr))

TitleLine(chunk) == <<WALL, SPACE>> \o <<SPACE, "*">> \o chunk \o <<"*", SPACE>>

DescLine(chunk) == <<WALL, SPACE>> \o chunk

----------------------------------------------------------------------------
(* setTitle, setDescription, setFooter, setTimestamp *)

(* setTitle chunking from lenstr >= max on *)
setTitle_GreaterEqual(this, title, ref) ==
  LET sized == sizeEmbed(this, Undefined, ref).this
      max == MaxOf(sized)
  IN IF StrictEq(TypeOf(title), StringName)
     THEN LET lenstr == Len(title.v)
              sl == Slices(title.v, max)
              title_embed ==
                IF lenstr >= max
                THEN JoinLines([i \in 1..Len(sl) |-> TitleLine(sl[i])])
                ELSE IF lenstr < max + 1 THEN TitleLine(title.v) ELSE <<>>
          IN [this |-> [sized EXCEPT !.title = Str(title_embed)], ret |-> "this"]
     ELSE [this |-> sized, ret |-> "TypeError"]

setTitle(this, title, ref) ==
  LET sized == sizeEmbed(this, Undefined, ref).this
      max == MaxOf(sized)
  IN IF StrictEq(TypeOf(title), StringName)
     THEN LET lenstr == Len(title.v)
              sl == Slices(title.v, max)
              title_embed ==
                IF lenstr > max
                THEN JoinLines([i \in 1..Len(sl) |-> TitleLine(sl[i])])
                ELSE IF lenstr < max + 1 THEN TitleLine(title.v) ELSE <<>>
          IN [this |-> [sized EXCEPT !.title = Str(title_embed)], ret |-> "this"]
     ELSE [this |-> sized, ret |-> "TypeError"]

setDescription(this, description, ref) ==
  LET sized == sizeEmbed(this, Undefined, ref).this
      max == MaxOf(sized)
  IN IF StrictEq(TypeOf(description), StringName)
     THEN LET lenstr == Len(description.v)
              sl == Slices(description.v, max)
              desc_embed ==
                IF lenstr > max
                THEN <<NL>> \o JoinLines([i \in 1..Len(sl) |-> DescLine(sl[i])]) \o <<NL>>
                ELSE IF lenstr < max + 1
                THEN <<NL>> \o DescLine(description.v) \o <<NL>>
                ELSE <<>>
          IN IF lenstr < 1 THEN [this |-> sized, ret |-> "TypeError"]
             ELSE [this |-> [sized EXCEPT !.description = Str(desc_embed)], ret |-> "this"]
     ELSE [this |-> sized, ret |-> "TypeError"]

(* setFooter with the length test off by one: lenstr >= 20 *)
setFooter_OffByOne(this, footer) ==
  IF StrictEq(TypeOf(footer), StringName)
  THEN IF Len(footer.v) >= 20
       THEN [this |-> this, ret |-> "RangeError"]
       ELSE [this |-> [this EXCEPT !.footer =
                         Str(<<WALL, SPACE>> \o <<TICK, TICK, TICK>> \o footer.v \o <<TICK, TICK, TICK>>)],
             ret |-> "this"]
  ELSE [this |-> this, ret |-> "TypeError"]

setFooter(this, footer) ==
  IF StrictEq(TypeOf(footer), StringName)
  THEN IF Len(footer.v) > 20
       THEN [this |-> this, ret |-> "RangeError"]
       ELSE [this |-> [this EXCEPT !.footer =
                         Str(<<WALL, SPACE>> \o <<TICK, TICK, TICK>> \o footer.v \o <<TICK, TICK, TICK>>)],
             ret |-> "this"]
  ELSE [this |-> this, ret |-> "TypeError"]

(* today = [month |-> getMonth(), date |-> getDate(), year |-> getFullYear()] *)
setTimestamp(this, timestamp, today) ==
  LET date == Digits(today.month) \o <<"/">> \o Digits(today.date + 1)
                \o <<"/">> \o Digits(today.year)
      timestap_embed ==
        IF StrictEq(timestamp, Undefined)
        THEN <<SPACE, SPACE, "*", BULLET, "*", SPACE, SPACE>> \o date
        ELSE <<>>
  IN [this |-> [this EXCEPT !.timestamp = Str(timestap_embed)], ret |-> "this"]

----------------------------------------------------------------------------
(* Inputs *)

MaxLen == 7
MaxFields == 2
MaxPx == 50

NoData == [present |-> {}, px |-> Undefined, title |-> Undefined,
           description |-> Undefined, timestamp |-> Undefined,
           fields |-> Undefined, footer |-> Undefined]

Errors == {"RangeError", "TypeError"}

(* the identity of a newly allocated object: one no live embed refers to *)
RefsOf(e) == IF e.px.t = "object" THEN {e.px.v.ref} ELSE {}

FreshRef ==
  LET free == (1..3) \ (RefsOf(embed) \cup RefsOf(other))
  IN CHOOSE r \in free : \A q \in free : r <= q

Repeat(c, n) == [i \in 1..n |-> c]

Hi == Str(<<"H","i">>)
Hello == Str(<<"H","e","l","l","o","!">>)
HelloWorld == Str(<<"H","e","l","l","o","W","o","r","l","d">>)
FieldAB == Obj([name |-> Str(<<"A">>), value |-> Str(<<"B">>)])
FieldCD == Obj([name |-> Str(<<"C">>), value |-> Str(<<"D">>)])
FieldBad == Obj([name |-> Str(<<"E">>), value |-> Str(<<>>)])
Today == [month |-> 10, date |-> 1, year |-> 2026]

PxArgs == {Undefined, Str(<<"5">>)} \cup {Num(n) : n \in {2, 3, 5, 47}}
TextArgs == {Num(42), Str(<<>>), Hello}
FooterArgs == {Num(7), Str(Repeat("x", 20)), Str(Repeat("x", 21))}
NameArgs == {Str(<<"A">>), Str(<<>>)}
ValueArgs == {Str(<<"B">>), Undefined}
BatchArgs == {<<FieldCD>>, <<FieldAB, FieldCD>>, <<Arr(<<FieldCD, FieldAB>>)>>,
              <<FieldCD, Arr(<<FieldAB>>)>>, <<FieldAB, FieldBad>>,
              <<Arr(<<Arr(<<FieldAB>>)>>)>>, <<FieldAB, Null>>}
TimestampArgs == {Undefined, Num(0)}

----------------------------------------------------------------------------
(* The embed and its setters: one action per method, called on embed *)

Called(op, args, r) ==
  /\ embed' = r.this
  /\ last' = [op |-> op, args |-> args, ret |-> r.ret, on |-> "embed"]
  /\ UNCHANGED <<other, input>>

Init ==
  /\ embed = Setup(NoData, FALSE)
  /\ other = Setup(NoData, FALSE)
  /\ last = [op |-> "constructor", args |-> <<>>, ret |-> "this", on |-> "embed"]
  /\ input = Undefined

SizeEmbed == \E px \in PxArgs : Called("sizeEmbed", <<px>>, sizeEmbed(embed, px, FreshRef))

AddField ==
  \E name \in NameArgs, value \in ValueArgs :
    LET r == addField(embed, name, value)
    IN /\ Len(r.this.fields) <= MaxFields
       /\ Called("addField", <<name, value>>, r)

AddFields ==
  \E fields \in BatchArgs :
    LET r == addFields(embed, fields)
    IN /\ Len(r.this.fields) <= MaxFields
       /\ Called("addFields", fields, r)

SetTitle == \E title \in TextArgs : Called("setTitle", <<title>>, setTitle(embed, title, FreshRef))

SetDescription ==
  \E description \in TextArgs :
    Called("setDescription", <<description>>, setDescription(embed, description, FreshRef))

SetFooter == \E footer \in FooterArgs : Called("setFooter", <<footer>>, setFooter(embed, footer))

SetTimestamp ==
  \E timestamp \in TimestampArgs :
    Called("setTimestamp", <<timestamp>>, setTimestamp(embed, timestamp, Today))

Next ==
  \/ SizeEmbed
  \/ AddField
  \/ AddFields
  \/ SetTitle
  \/ SetDescription
  \/ SetFooter
  \/ SetTimestamp

Spec == Init /\ [][Next]_vars

----------------------------------------------------------------------------
(* Properties of the setters, under Spec *)

IsString(x) == x.t = "string"

IsNumeric(x) == x.t = "number"

Cleared(px) == px.t = "object" /\ px.v.char = Null /\ px.v.line = Null

(* C5: sizeEmbed with no argument clears the sizing to {char: null, line:   *)
(* null}, and so the px of the embed is that cleared record once setTitle   *)
(* or setDescription has run.                                               *)
C5_NoArgumentClears ==
  /\ (last.op = "sizeEmbed" /\ last.args = <<Undefined>>) => Cleared(embed.px)
  /\ last.op \in {"setTitle", "setDescription"} => Cleared(embed.px)

(* C6: a setter that throws leaves every attribute of the embed as it was   *)
(* before the call.                                                         *)
C6_FailedSetterLeavesEmbed == [][last'.ret \in Errors => embed' = embed]_vars

(* C6 witness: addFields threw on a batch whose first field was valid, on   *)
(* an embed that already had a field.                                       *)
C6_Witness ==
  /\ last.op = "addFields"
  /\ last.ret = "RangeError"
  /\ last.args = <<FieldAB, FieldBad>>
  /\ Len(embed.fields) = 1

(* C7: every setter that completes without throwing returns the embed it    *)
(* was called on.                                                           *)
C7_ReturnsThis == last.ret \notin Errors => last.ret = "this"

(* the {name, value} records a successful addField/addFields call was given *)
RECURSIVE ArgRecords(_)
ArgRecords(args) ==
  IF args = <<>> THEN <<>>
  ELSE LET h == Head(args)
       IN (IF h.t = "array" THEN [i \in 1..Len(h.v) |-> h.v[i].v] ELSE <<h.v>>)
            \o ArgRecords(Tail(args))

Added(l) ==
  IF l.op = "addField" THEN <<[name |-> l.args[1], value |-> l.args[2]]>>
  ELSE ArgRecords(l.args)

IsPrefix(a, b) == Len(a) <= Len(b) /\ SubSeq(b, 1, Len(a)) = a

(* C9: fields keep insertion order: a successful addField/addFields appends *)
(* the records it was given, in argument order, and no call removes,        *)
(* reorders or rewrites a field already there.                              *)
C9_FieldsKeepInsertionOrder ==
  [][/\ IsPrefix(embed.fields, embed'.fields)
     /\ (last'.op \in {"addField", "addFields"} /\ last'.ret = "this")
          => embed'.fields = embed.fields \o Added(last')
     /\ last'.op \notin {"addField", "addFields"} => embed'.fields = embed.fields]_vars

(* C9 witness: addFields appended a field to an embed that had another     *)
(* field and a title.                                                       *)
C9_Witness ==
  /\ last.op = "addFields"
  /\ last.ret = "this"
  /\ last.args = <<FieldCD>>
  /\ embed.fields = <<FieldAB.v, FieldCD.v>>
  /\ embed.title # Null

(* C10: setFooter(f) succeeds exactly when f is a string of at most 20      *)
(* characters and then stores wall, space and the code-fenced f as one      *)
(* line whatever the width; a longer string throws a range error and a      *)
(* non-string a type error.                                                 *)
C10_Footer ==
  last.op = "setFooter" =>
    LET f == last.args[1]
    IN /\ last.ret = "this" <=> (IsString(f) /\ Len(f.v) <= 20)
       /\ last.ret = "this" =>
            embed.footer = Str(<<WALL, SPACE, TICK, TICK, TICK>> \o f.v \o <<TICK, TICK, TICK>>)
       /\ (IsString(f) /\ Len(f.v) >= 21) => last.ret = "RangeError"
       /\ ~IsString(f) => last.ret = "TypeError"

(* C10 witness: a footer of exactly 20 characters set on a sized embed *)
C10_Witness ==
  /\ last.op = "setFooter"
  /\ last.ret = "this"
  /\ Len(last.args[1].v) = 20
  /\ embed.px.t = "object"

----------------------------------------------------------------------------
(* sizeEmbed over the whole range of widths *)

SizeNumbers == {Num(n) : n \in (0 - 3)..MaxPx}

SizeNumber == \E px \in SizeNumbers : Called("sizeEmbed", <<px>>, sizeEmbed(embed, px, FreshRef))

SizeOther ==
  \E px \in {Undefined, NaN, Null, Str(<<"5">>)} :
    Called("sizeEmbed", <<px>>, sizeEmbed(embed, px, FreshRef))

NextSize == SizeNumber \/ SizeOther

SpecSize == Init /\ [][NextSize]_vars

(* C4: sizeEmbed(px) with a numeric px in [3,46] succeeds and sets the      *)
(* width to px and the rule to |px-4| dashes; a numeric px <= 2 or >= 47    *)
(* throws a range error.  So a width that is set lies in 3..46.             *)
C4_SizeEmbedRange ==
  /\ (last.op = "sizeEmbed" /\ IsNumeric(last.args[1])) =>
       LET n == last.args[1].v
           dist == IF n >= 4 THEN n - 4 ELSE 4 - n
       IN /\ (n >= 3 /\ n <= 46) =>
               /\ last.ret = "this"
               /\ embed.px.t = "object"
               /\ embed.px.v.char = Num(n)
               /\ embed.px.v.line = Str(Repeat(DASH, dist))
          /\ (n <= 2 \/ n >= 47) => last.ret = "RangeError"
  /\ (embed.px.t = "object" /\ embed.px.v.char # Null) =>
       (embed.px.v.char.v >= 3 /\ embed.px.v.char.v <= 46)

(* C4 witness: sizeEmbed(3), the one width below 4, gave a rule of one dash *)
C4_Witness ==
  /\ last.op = "sizeEmbed"
  /\ last.args = <<Num(3)>>
  /\ last.ret = "this"
  /\ embed.px.v.line = Str(<<DASH>>)

----------------------------------------------------------------------------
(* Wrapping: one input text, set as title and as description under the     *)
(* default width and under widths set by sizeEmbed                         *)

Pattern(n) == [i \in 1..n |-> <<"a", "b", "c">>[(i % 3) + 1]]

WrapInputs ==
  {Str(s) : s \in UNION {[1..n -> {"a", "b"}] : n \in 0..MaxLen}}
    \cup {Str(Pattern(n)) : n \in {28, 29, 56, 57}}
    \cup {HelloWorld, Str(<<" ", "*", "a", "*", " ", "b", "*">>), Num(42)}

WrapWidths == {Num(3), Num(5)}

InitWrap ==
  /\ embed = Setup(NoData, FALSE)
  /\ other = Setup(NoData, FALSE)
  /\ last = [op |-> "constructor", args |-> <<>>, ret |-> "this", on |-> "embed"]
  /\ input \in WrapInputs

WrapSize == \E px \in WrapWidths : Called("sizeEmbed", <<px>>, sizeEmbed(embed, px, FreshRef))

WrapTitle == Called("setTitle", <<input>>, setTitle(embed, input, FreshRef))

WrapDescription == Called("setDescription", <<input>>, setDescription(embed, input, FreshRef))

NextWrap == WrapSize \/ WrapTitle \/ WrapDescription

SpecWrap == InitWrap /\ [][NextWrap]_vars

(* de-wrapping: the lines of a rendered text, and a line without its       *)
(* decoration                                                              *)
RECURSIVE SplitLines(_)
SplitLines(r) ==
  IF \A i \in 1..Len(r) : r[i] # NL THEN <<r>>
  ELSE LET k == CHOOSE i \in 1..Len(r) : r[i] = NL /\ \A j \in 1..(i - 1) : r[j] # NL
       IN <<SubSeq(r, 1, k - 1)>> \o SplitLines(SubSeq(r, k + 1, Len(r)))

Unwrap(line, pre, post) == SubSeq(line, Len(pre) + 1, Len(line) - Len(post))

Decorated(line, pre, post) ==
  /\ Len(line) >= Len(pre) + Len(post)
  /\ SubSeq(line, 1, Len(pre)) = pre
  /\ SubSeq(line, Len(line) - Len(post) + 1, Len(line)) = post

RECURSIVE Concat(_)
Concat(ss) == IF ss = <<>> THEN <<>> ELSE Head(ss) \o Concat(Tail(ss))

TitlePre == <<WALL, SPACE, SPACE, "*">>
TitlePost == <<"*", SPACE>>
DescPre == <<WALL, SPACE>>

TitleChunks(title) ==
  LET ls == SplitLines(title.v) IN [i \in 1..Len(ls) |-> Unwrap(ls[i], TitlePre, TitlePost)]

DescChunks(description) ==
  LET ls == SplitLines(SubSeq(description.v, 2, Len(description.v) - 1))
  IN [i \in 1..Len(ls) |-> Unwrap(ls[i], DescPre, <<>>)]

(* the chunks of the text the last call stored *)
LastChunks == IF last.op = "setTitle" THEN TitleChunks(embed.title) ELSE DescChunks(embed.description)

(* the last call was setTitle or setDescription of a string longer than the width *)
Wrapped ==
  /\ last.op \in {"setTitle", "setDescription"}
  /\ last.ret = "this"
  /\ IsString(last.args[1])
  /\ Len(last.args[1].v) > MaxOf(embed)

(* C1: wrapping is lossless: for a string longer than the width the chunks  *)
(* of the title and of the description, concatenated in line order, are     *)
(* the string, and every chunk but the last has exactly the width.          *)
C1_WrappingLossless ==
  Wrapped =>
    /\ Concat(LastChunks) = last.args[1].v
    /\ \A i \in 1..(Len(LastChunks) - 1) : Len(LastChunks[i]) = MaxOf(embed)

(* C1 witness: a description of 7 characters wrapped at the width 3 set by  *)
(* sizeEmbed, after the same text was set as the title.                     *)
C1_Witness ==
  /\ Wrapped
  /\ last.op = "setDescription"
  /\ Len(last.args[1].v) = 7
  /\ MaxOf(embed) = 3
  /\ embed.title # Null

(* C2: a string longer than the width gives exactly ceil(len/width) lines   *)
(* and a last chunk of 1..width characters, also when len is a multiple of  *)
(* the width.                                                               *)
C2_LineCount ==
  Wrapped =>
    LET len == Len(last.args[1].v)
        max == MaxOf(embed)
        n == Len(LastChunks)
    IN /\ n = (len + max - 1) \div max
       /\ Len(LastChunks[n]) >= 1
       /\ Len(LastChunks[n]) <= max

(* C3: a string no longer than the width is stored as one line: the title   *)
(* as wall, space and the emphasis-wrapped string, the non-empty            *)
(* description as the wall-prefixed string between two newlines;            *)
(* setTitle("") still gives its line and setDescription("") throws a type   *)
(* error.                                                                   *)
C3_ShortTextOneLine ==
  (last.op \in {"setTitle", "setDescription"} /\ IsString(last.args[1])
     /\ Len(last.args[1].v) <= MaxOf(embed)) =>
    LET s == last.args[1].v
    IN /\ last.op = "setTitle" =>
            /\ last.ret = "this"
            /\ embed.title = Str(TitlePre \o s \o TitlePost)
            /\ TitleChunks(embed.title) = <<s>>
       /\ (last.op = "setDescription" /\ Len(s) >= 1) =>
            /\ last.ret = "this"
            /\ embed.description = Str(<<NL>> \o DescPre \o s \o <<NL>>)
            /\ DescChunks(embed.description) = <<s>>
       /\ (last.op = "setDescription" /\ Len(s) = 0) => last.ret = "TypeError"

(* C3 witness: a title of exactly the width 3 set by sizeEmbed *)
C3_Witness ==
  /\ last.op = "setTitle"
  /\ last.ret = "this"
  /\ IsString(last.args[1])
  /\ Len(last.args[1].v) = 3
  /\ MaxOf(embed) = 3

----------------------------------------------------------------------------
(* Two embeds, built and set independently, and compared by equals.  The   *)
(* return values of the calls are not recorded here.                       *)

TimestampData(x) == [NoData EXCEPT !.present = {"timestamp"}, !.timestamp = x]

EqData == {NoData, TimestampData(Undefined)}

EqWidths == {Num(3), Num(5)}

InitEq ==
  /\ \E d \in EqData : embed = Setup(d, FALSE)
  /\ \E d \in EqData : other = Setup(d, FALSE)
  /\ last = [op |-> "constructor", args |-> <<>>, ret |-> "this", on |-> "embed"]
  /\ input = Undefined

(* the embed a call is made on, and the call's effect on it *)
Target(which) == IF which = "embed" THEN embed ELSE other

CalledOn(which, r) ==
  /\ IF which = "embed"
     THEN embed' = r.this /\ UNCHANGED other
     ELSE other' = r.this /\ UNCHANGED embed
  /\ UNCHANGED <<last, input>>

Both == {"embed", "other"}

EqSizeEmbed ==
  \E which \in Both, px \in EqWidths :
    CalledOn(which, sizeEmbed(Target(which), px, FreshRef))

EqAddField ==
  \E which \in Both, f \in {FieldAB, FieldCD} :
    LET r == addField(Target(which), f.v.name, f.v.value)
    IN /\ Len(r.this.fields) <= 1
       /\ CalledOn(which, r)

EqSetTitle == \E which \in Both : CalledOn(which, setTitle(Target(which), Hi, FreshRef))

EqSetDescription ==
  \E which \in Both : CalledOn(which, setDescription(Target(which), Hi, FreshRef))

EqSetFooter == \E which \in Both : CalledOn(which, setFooter(Target(which), Hi))

EqSetTimestamp ==
  \E which \in Both : CalledOn(which, setTimestamp(Target(which), Num(0), Today))

NextEq ==
  \/ EqSizeEmbed
  \/ EqAddField
  \/ EqSetTitle
  \/ EqSetDescription
  \/ EqSetFooter
  \/ EqSetTimestamp

SpecEq == InitEq /\ [][NextEq]_vars

(* an attribute by value: an object without its identity *)
ValueOf(x) == IF x.t = "object" THEN [char |-> x.v.char, line |-> x.v.line] ELSE x

Attributes == {"px", "title", "description", "timestamp", "fields", "footer"}

(* the attributes in which two embeds differ in value *)
Differing(a, b) == {k \in Attributes \ {"px"} : a[k] # b[k]}
                     \cup (IF ValueOf(a.px) # ValueOf(b.px) THEN {"px"} ELSE {})

EqualsReflexive == equals(embed, embed) /\ equals(other, other)

EqualsSymmetric == equals(embed, other) = equals(other, embed)

EqualsOfEqualValues == Differing(embed, other) = {} => equals(embed, other)

EqualsSensitive == Cardinality(Differing(embed, other)) = 1 => ~equals(embed, other)

(* C8: equals is reflexive and symmetric, true for two embeds whose width,  *)
(* title, description, footer, timestamp and ordered fields are equal in    *)
(* value, and false when exactly one of them differs.                       *)
C8_Equals ==
  /\ EqualsReflexive
  /\ EqualsSymmetric
  /\ EqualsOfEqualValues
  /\ EqualsSensitive

====
